---------------------------- MODULE Spec2Model ----------------------------
(***************************************************************************)
(* A model of fio-qa (src/main.go): main runs every test definition with   *)
(* fio, normalises each raw fio document into a TestResult, shows it,      *)
(* then renders the run twice: displaySummary (interactive view) and       *)
(* saveResultsToJSON (persisted view).                                     *)
(*                                                                         *)
(* Numbers.  float64 quantities are modelled by integers, and the raw      *)
(* inputs are drawn so that every division of the code (/1000, /1024/1024, *)
(* /2) is exact on them.  A time.Duration is counted in units of 500ms,    *)
(* so that Round(time.Second) is not the identity.  Printed cells are      *)
(* strings; the unit the code prints as a Greek mu + s is written "us".    *)
(***************************************************************************)
EXTENDS Integers, Sequences, FiniteSets, TLC

VARIABLES
    pc,          \* position of main: "check", "load", "loop", "fio", "parse",
                 \* "return", "summary", "save", "done", "exited"
    tests,       \* testCases.Tests, the loaded test definitions
    idx,         \* 1-based index of the test of the current loop iteration
    now,         \* wall clock, in units of 500ms since the program started
    result,      \* runTest's local `result`
    tmpFile,     \* runTest's local `tmpFile` (a path)
    fioErr,      \* runTest's local `err` of cmd.CombinedOutput() is not nil
    fioDoc,      \* what fio left at tmpFile, as parseFioOutput will see it
    tmpFiles,    \* the temporary raw-measurement files that exist on disk
    results,     \* main's `results`
    shown,       \* the per-test blocks displayTestResult has printed
    summaryView, \* what displaySummary has printed (<<>> until it runs)
    persisted,   \* the document saveResultsToJSON wrote (<<>> if none)
    warning,     \* main printed "Warning: Failed to save results to JSON"
    exitCode,    \* process exit status; -1 while the process is running
    run,         \* the number of this run of the program, from 1
    reports      \* the report files on disk, as <<file name, run that wrote it>>

vars == <<pc, tests, idx, now, result, tmpFile, fioErr, fioDoc, tmpFiles,
          results, shown, summaryView, persisted, warning, exitCode, run,
          reports>>

---------------------------------------------------------------------------
(* Bounds of the model *)

\* largest number of test definitions in fio-testcases.json
MaxTests == 2

\* largest length of a result sequence handed to the aggregation functions
MaxResults == 2

---------------------------------------------------------------------------
(* Program constants *)

\* the initial value of minLatency.AvgLatencyUs
LatencySentinel == 999999999

\* the width a test name is cut to in the highlights table
HighlightNameWidth == 32

\* one second, in the model's duration unit (500ms)
Second == 2

NoError == "<nil>"
NoPath == <<"", 0>>

---------------------------------------------------------------------------
(* Input domains *)

LongName == "throughput_for_random_reads_and_writes_64k"

\* names of the test definitions, by position in fio-testcases.json
TestNames == <<"iops_rand_reads", LongName, "iops_seq_reads",
               "latency_rand_reads">>

TestDefs == [i \in 1..Len(TestNames) |->
                [Name |-> TestNames[i], Description |-> TestNames[i]]]

\* time.Since(start) of one fio execution
Durations == {1, 3}

\* job.read.iops and job.write.iops
IOPSValues == {0, 1}

\* bytes moved by one I/O (bs=1M): fio reports bw_bytes = iops * bs
BytesPerIO == 1048576

\* job.read.lat_ns.mean
ReadLatNsValues == {0, 2000}

\* job.write.lat_ns.mean
WriteLatNsValues == {0, 4000}

\* displayTestResult, lines 407-409: the canonical percentile labels, each
\* with the key of its JSONPercentiles field (lines 595-613)
PercentileKeys ==
    <<[Raw |-> "1.000000", JSON |-> "p1"],
      [Raw |-> "5.000000", JSON |-> "p5"],
      [Raw |-> "10.000000", JSON |-> "p10"],
      [Raw |-> "20.000000", JSON |-> "p20"],
      [Raw |-> "30.000000", JSON |-> "p30"],
      [Raw |-> "40.000000", JSON |-> "p40"],
      [Raw |-> "50.000000", JSON |-> "p50"],
      [Raw |-> "60.000000", JSON |-> "p60"],
      [Raw |-> "70.000000", JSON |-> "p70"],
      [Raw |-> "80.000000", JSON |-> "p80"],
      [Raw |-> "90.000000", JSON |-> "p90"],
      [Raw |-> "95.000000", JSON |-> "p95"],
      [Raw |-> "99.000000", JSON |-> "p99"],
      [Raw |-> "99.500000", JSON |-> "p99_5"],
      [Raw |-> "99.900000", JSON |-> "p99_9"],
      [Raw |-> "99.950000", JSON |-> "p99_95"],
      [Raw |-> "99.990000", JSON |-> "p99_99"]>>

CanonicalLabels == {PercentileKeys[i].Raw : i \in 1..Len(PercentileKeys)}

\* the JSONPercentiles key of a canonical label
JSONKey(raw) ==
    PercentileKeys[CHOOSE i \in 1..Len(PercentileKeys) :
                       PercentileKeys[i].Raw = raw].JSON

\* a clat_ns.percentile map without entries
NoPercentiles == [l \in {} |-> 0]

\* the maps from some of the labels to the values
PercentileMaps(labels, values) ==
    UNION {[present -> values] : present \in SUBSET labels}

FioIOs(latNsValues, percentileMaps) ==
    {[IOPS |-> n, BWBytes |-> n * BytesPerIO, LatNs |-> [Mean |-> l],
      Clat |-> [Percentile |-> m]] :
        n \in IOPSValues, l \in latNsValues, m \in percentileMaps}

FioJobs == [Read : FioIOs(ReadLatNsValues, {NoPercentiles}),
            Write : FioIOs(WriteLatNsValues, {NoPercentiles})]

\* a parsed FioOutput: only Jobs[0] is ever read
FioOutputs == {[Jobs |-> <<>>]} \cup {[Jobs |-> <<j>>] : j \in FioJobs}

\* what parseFioOutput finds at tmpFile
ReadMissing == [kind |-> "missing", out |-> [Jobs |-> <<>>]]
ReadMalformed == [kind |-> "malformed", out |-> [Jobs |-> <<>>]]
ReadOutcomes == {ReadMissing, ReadMalformed} \cup
                {[kind |-> "json", out |-> o] : o \in FioOutputs}

---------------------------------------------------------------------------
(* TestResult *)

\* the zero value of TestResult (var maxIOPS TestResult)
ZeroResult ==
    [TestName |-> "", Description |-> "",
     ReadIOPS |-> 0, WriteIOPS |-> 0, TotalIOPS |-> 0,
     ReadBWMBps |-> 0, WriteBWMBps |-> 0, TotalBWMBps |-> 0,
     ReadLatencyUs |-> 0, WriteLatencyUs |-> 0, AvgLatencyUs |-> 0,
     Duration |-> 0, Status |-> "", Error |-> NoError, FioJob |-> <<>>]

\* runTest, lines 208-212: the result a test starts from
InitialResult(test) ==
    [ZeroResult EXCEPT !.TestName = test.Name,
                       !.Description = test.Description,
                       !.Status = "FAILED"]

\* runTest, lines 257-263: the combined latency
AvgLatency(readIOPS, writeIOPS, readLat, writeLat) ==
    IF readIOPS > 0 /\ writeIOPS > 0 THEN (readLat + writeLat) \div 2
    ELSE IF readIOPS > 0 THEN readLat
    ELSE writeLat

\* a runTest that takes the metrics of the last job of the document
ExtractMetricsLastJob(r, fioOutput) ==
    IF Len(fioOutput.Jobs) > 0
    THEN LET job == fioOutput.Jobs[Len(fioOutput.Jobs)]
             readBW == (job.Read.BWBytes \div 1024) \div 1024
             writeBW == (job.Write.BWBytes \div 1024) \div 1024
             readLat == job.Read.LatNs.Mean \div 1000
             writeLat == job.Write.LatNs.Mean \div 1000
         IN [r EXCEPT !.ReadIOPS = job.Read.IOPS,
                      !.WriteIOPS = job.Write.IOPS,
                      !.TotalIOPS = job.Read.IOPS + job.Write.IOPS,
                      !.ReadBWMBps = readBW,
                      !.WriteBWMBps = writeBW,
                      !.TotalBWMBps = readBW + writeBW,
                      !.ReadLatencyUs = readLat,
                      !.WriteLatencyUs = writeLat,
                      !.AvgLatencyUs = AvgLatency(job.Read.IOPS, job.Write.IOPS,
                                                  readLat, writeLat),
                      !.FioJob = <<job>>,
                      !.Status = "PASSED"]
    ELSE r

\* runTest, lines 242-270: metrics of the first job, or r unchanged
ExtractMetrics(r, fioOutput) ==
    IF Len(fioOutput.Jobs) > 0
    THEN LET job == fioOutput.Jobs[1]
             readBW == (job.Read.BWBytes \div 1024) \div 1024
             writeBW == (job.Write.BWBytes \div 1024) \div 1024
             readLat == job.Read.LatNs.Mean \div 1000
             writeLat == job.Write.LatNs.Mean \div 1000
         IN [r EXCEPT !.ReadIOPS = job.Read.IOPS,
                      !.WriteIOPS = job.Write.IOPS,
                      !.TotalIOPS = job.Read.IOPS + job.Write.IOPS,
                      !.ReadBWMBps = readBW,
                      !.WriteBWMBps = writeBW,
                      !.TotalBWMBps = readBW + writeBW,
                      !.ReadLatencyUs = readLat,
                      !.WriteLatencyUs = writeLat,
                      !.AvgLatencyUs = AvgLatency(job.Read.IOPS, job.Write.IOPS,
                                                  readLat, writeLat),
                      !.FioJob = <<job>>,
                      !.Status = "PASSED"]
    ELSE r

\* d.Round(time.Second): to the nearest second, halfway values away from zero
RoundSecond(d) == ((d + Second \div 2) \div Second) * Second

\* time.Now().Unix()
Unix(t) == t \div Second

---------------------------------------------------------------------------
(* Formatting *)

\* fmt.Sprintf("%.0f", x), for a whole number x
FormatF0(x) == ToString(x)

\* fmt.Sprintf("%.2f", x), for a whole number x
FormatF2(x) == ToString(x) \o ".00"

\* time.Duration.String(), for a duration below one minute
DurationString(d) ==
    IF d = 0 THEN "0s"
    ELSE IF d < Second THEN ToString(d * (1000 \div Second)) \o "ms"
    ELSE ToString(d \div Second) \o
         (IF d % Second = 0 THEN "s" ELSE ".5s")

\* displaySummary, lines 1007-1010: testName[:32]
TruncateName(testName) ==
    IF Len(testName) > HighlightNameWidth
    THEN SubSeq(testName, 1, HighlightNameWidth)
    ELSE testName

\* fmt.Sprintf("p%.2f", parseFloat(p)), for a label p with six decimals of
\* which the last four are zero
FormatPercentile(p) == "p" \o SubSeq(p, 1, Len(p) - 4)

---------------------------------------------------------------------------
(* displayTestResult *)

\* lines 462-467
GetPercentile(percentiles, key) ==
    IF key \in DOMAIN percentiles THEN percentiles[key] ELSE 0

\* lines 400-417: the rows of the percentile table, one per canonical label
\* found in the map
PercentileRows(percentiles) ==
    LET found == CanonicalLabels \cap DOMAIN percentiles
        raw(cell) == CHOOSE p \in found : FormatPercentile(p) = cell
    IN [cell \in {FormatPercentile(p) : p \in found} |->
            FormatF2(percentiles[raw(cell)] \div 1000)]

\* lines 319-455: the rows of the block printed for one result, as
\* label :> cell
DisplayTestResult(r) ==
    IF r.Status = "FAILED"
    THEN ("Status" :> "FAILED") @@
         (IF r.Error # NoError THEN ("Error" :> r.Error) ELSE <<>>)
    ELSE ("Status" :> "PASSED") @@
         ("Test Name" :> r.TestName) @@
         ("Description" :> r.Description) @@
         ("Duration" :> DurationString(RoundSecond(r.Duration))) @@
         ("IOPS Read" :> FormatF0(r.ReadIOPS)) @@
         ("IOPS Write" :> FormatF0(r.WriteIOPS)) @@
         ("IOPS Total" :> FormatF0(r.TotalIOPS)) @@
         ("Bandwidth Read" :> FormatF2(r.ReadBWMBps)) @@
         ("Bandwidth Write" :> FormatF2(r.WriteBWMBps)) @@
         ("Bandwidth Total" :> FormatF2(r.TotalBWMBps)) @@
         (IF r.FioJob # <<>>
          THEN ("Total Lat Avg Read" :>
                    FormatF2(r.FioJob[1].Read.LatNs.Mean \div 1000)) @@
               ("Total Lat Avg Write" :>
                    FormatF2(r.FioJob[1].Write.LatNs.Mean \div 1000))
          ELSE <<>>) @@
         (IF r.FioJob # <<>> /\ DOMAIN r.FioJob[1].Read.Clat.Percentile # {}
          THEN PercentileRows(r.FioJob[1].Read.Clat.Percentile)
          ELSE <<>>)

---------------------------------------------------------------------------
(* main *)

Init ==
    /\ pc = "check"
    /\ tests = <<>>
    /\ idx = 1
    /\ now = 0
    /\ result = ZeroResult
    /\ tmpFile = NoPath
    /\ fioDoc = ReadMissing
    /\ tmpFiles = {}
    /\ results = <<>>
    /\ shown = <<>>
    /\ summaryView = <<>>
    /\ persisted = <<>>
    /\ warning = FALSE
    /\ exitCode = -1
    /\ fioErr = FALSE
    /\ run = 1
    /\ reports = {}

\* main, lines 141-146: the pre-flight check
CheckFioInstalled ==
    /\ pc = "check"
    /\ \E installed \in BOOLEAN :
          IF installed
          THEN pc' = "load" /\ exitCode' = exitCode
          ELSE pc' = "exited" /\ exitCode' = 1
    /\ UNCHANGED <<tests, idx, now, result, tmpFile, fioDoc, tmpFiles,
                   results, shown, summaryView, persisted, warning, fioErr,
                   run, reports>>

\* main, lines 148-153: load a fio-testcases.json of at most maxTests tests
LoadTestCasesUpTo(maxTests) ==
    /\ pc = "load"
    /\ \E ok \in BOOLEAN :
          IF ok
          THEN /\ \E n \in 0..maxTests : tests' = SubSeq(TestDefs, 1, n)
               /\ pc' = "loop"
               /\ exitCode' = exitCode
          ELSE /\ tests' = tests
               /\ pc' = "exited"
               /\ exitCode' = 1
    /\ UNCHANGED <<idx, now, result, tmpFile, fioDoc, tmpFiles, results,
                   shown, summaryView, persisted, warning, fioErr, run,
                   reports>>

LoadTestCases == LoadTestCasesUpTo(MaxTests)

\* main line 160 and runTest lines 208-221: the next test is started
StartTest ==
    /\ pc = "loop"
    /\ idx <= Len(tests)
    /\ result' = InitialResult(tests[idx])
    /\ tmpFile' = <<tests[idx].Name, Unix(now)>>
    /\ pc' = "fio"
    /\ UNCHANGED <<tests, idx, now, fioDoc, tmpFiles, results, shown,
                   summaryView, persisted, warning, exitCode, fioErr, run,
                   reports>>

\* runTest, lines 224-232: fio runs; it writes tmpFile itself (--output),
\* whatever its exit status
RunFioFrom(durations, outcomes) ==
    /\ pc = "fio"
    /\ \E d \in durations, failed \in BOOLEAN, found \in outcomes :
          /\ now' = now + d
          /\ fioErr' = failed
          /\ fioDoc' = found
          /\ tmpFiles' = IF found.kind = "missing" THEN tmpFiles
                         ELSE tmpFiles \cup {tmpFile}
          /\ IF failed
             THEN /\ result' = [result EXCEPT !.Duration = d,
                                              !.Error = "fio command failed"]
                  /\ pc' = "return"
             ELSE /\ result' = [result EXCEPT !.Duration = d]
                  /\ pc' = "parse"
    /\ UNCHANGED <<tests, idx, tmpFile, results, shown, summaryView,
                   persisted, warning, exitCode, run, reports>>

RunFio == RunFioFrom(Durations, ReadOutcomes)

\* runTest, lines 234-275: the raw document is parsed and normalised
ParseFioOutput ==
    /\ pc = "parse"
    /\ IF fioDoc.kind # "json"
       THEN /\ result' = [result EXCEPT !.Error = "failed to parse fio output"]
            /\ tmpFiles' = tmpFiles
       ELSE /\ result' = ExtractMetrics(result, fioDoc.out)
            /\ tmpFiles' = tmpFiles \ {tmpFile}
    /\ pc' = "return"
    /\ UNCHANGED <<tests, idx, now, tmpFile, fioDoc, results, shown,
                   summaryView, persisted, warning, exitCode, fioErr, run,
                   reports>>

\* a loop that keeps only the results of the tests that passed
AppendResultIfPassed(rs, r) ==
    IF r.Status = "PASSED" THEN Append(rs, r) ELSE rs

\* a loop that puts each new result in front of the earlier ones
PrependResult(rs, r) == <<r>> \o rs

\* main, line 165: results = append(results, result)
AppendResult(rs, r) == Append(rs, r)

\* main, lines 164-169: runTest has returned; its locals are gone
FinishTest ==
    /\ pc = "return"
    /\ results' = AppendResult(results, result)
    /\ shown' = Append(shown, DisplayTestResult(result))
    /\ idx' = idx + 1
    /\ result' = ZeroResult
    /\ tmpFile' = NoPath
    /\ fioErr' = FALSE
    /\ fioDoc' = ReadMissing
    /\ pc' = "loop"
    /\ UNCHANGED <<tests, now, tmpFiles, summaryView, persisted, warning,
                   exitCode, run, reports>>

\* main, line 170: the range loop is over
LoopExit ==
    /\ pc = "loop"
    /\ idx > Len(tests)
    /\ pc' = "summary"
    /\ UNCHANGED <<tests, idx, now, result, tmpFile, fioDoc, tmpFiles,
                   results, shown, summaryView, persisted, warning, exitCode,
                   fioErr, run, reports>>

---------------------------------------------------------------------------
(* saveResultsToJSON *)

\* lines 650-652: passed := 0; failed := 0; var totalDuration
ZeroStats == [passed |-> 0, failed |-> 0, totalDuration |-> 0]

\* a statistics loop that adds up the durations of the passed tests only
SaveStatsStepPassedDuration(acc, r) ==
    [passed |-> IF r.Status = "PASSED" THEN acc.passed + 1 ELSE acc.passed,
     failed |-> IF r.Status = "PASSED" THEN acc.failed ELSE acc.failed + 1,
     totalDuration |-> IF r.Status = "PASSED"
                       THEN acc.totalDuration + r.Duration
                       ELSE acc.totalDuration]

\* lines 655-660: the body of the statistics loop
SaveStatsStep(acc, r) ==
    [passed |-> IF r.Status = "PASSED" THEN acc.passed + 1 ELSE acc.passed,
     failed |-> IF r.Status = "PASSED" THEN acc.failed ELSE acc.failed + 1,
     totalDuration |-> acc.totalDuration + r.Duration]

RECURSIVE SaveStatsLoop(_, _, _)
\* lines 654-661: for _, r := range results, from position k on
SaveStatsLoop(rs, k, acc) ==
    IF k > Len(rs) THEN acc
    ELSE SaveStatsLoop(rs, k + 1, SaveStatsStep(acc, rs[k]))

\* lines 664-667: the three winners before the scan
SaveInitialHighlights ==
    [maxIOPS |-> ZeroResult,
     maxBW |-> ZeroResult,
     minLatency |-> [ZeroResult EXCEPT !.AvgLatencyUs = LatencySentinel]]

\* a highlights loop without the test of r.Status
SaveHighlightStepAnyStatus(acc, r) ==
    [maxIOPS |-> IF r.TotalIOPS > acc.maxIOPS.TotalIOPS
                 THEN r ELSE acc.maxIOPS,
     maxBW |-> IF r.TotalBWMBps > acc.maxBW.TotalBWMBps
               THEN r ELSE acc.maxBW,
     minLatency |-> IF /\ r.AvgLatencyUs < acc.minLatency.AvgLatencyUs
                       /\ r.AvgLatencyUs > 0
                    THEN r ELSE acc.minLatency]

\* a highlights loop that compares with >= and <=: the last of equals wins
SaveHighlightStepLastWins(acc, r) ==
    IF r.Status = "PASSED"
    THEN [maxIOPS |-> IF r.TotalIOPS >= acc.maxIOPS.TotalIOPS
                      THEN r ELSE acc.maxIOPS,
          maxBW |-> IF r.TotalBWMBps >= acc.maxBW.TotalBWMBps
                    THEN r ELSE acc.maxBW,
          minLatency |-> IF /\ r.AvgLatencyUs <= acc.minLatency.AvgLatencyUs
                            /\ r.AvgLatencyUs > 0
                         THEN r ELSE acc.minLatency]
    ELSE acc

\* lines 670-680: the body of the highlights loop
SaveHighlightStep(acc, r) ==
    IF r.Status = "PASSED"
    THEN [maxIOPS |-> IF r.TotalIOPS > acc.maxIOPS.TotalIOPS
                      THEN r ELSE acc.maxIOPS,
          maxBW |-> IF r.TotalBWMBps > acc.maxBW.TotalBWMBps
                    THEN r ELSE acc.maxBW,
          minLatency |-> IF /\ r.AvgLatencyUs < acc.minLatency.AvgLatencyUs
                            /\ r.AvgLatencyUs > 0
                         THEN r ELSE acc.minLatency]
    ELSE acc

RECURSIVE SaveHighlightLoop(_, _, _)
\* lines 669-681: for _, r := range results, from position k on
SaveHighlightLoop(rs, k, acc) ==
    IF k > Len(rs) THEN acc
    ELSE SaveHighlightLoop(rs, k + 1, SaveHighlightStep(acc, rs[k]))

\* lines 693-707: one JSONHighlight
JSONHighlight(testName, value, unit) ==
    [test_name |-> testName, value |-> value, unit |-> unit]

\* lines 806-824: the JSONPercentiles built from a percentile map
JSONPercentiles(percentiles) ==
    [key \in {JSONKey(p) : p \in CanonicalLabels} |->
        GetPercentile(percentiles,
                      CHOOSE p \in CanonicalLabels : JSONKey(p) = key)
            \div 1000]

\* the zero value of JSONPercentiles, as JSONTestResult{...} leaves it
ZeroJSONPercentiles == [key \in {JSONKey(p) : p \in CanonicalLabels} |-> 0]

\* lines 713-857: one JSONTestResult as encoding/json emits it, key :> value;
\* only `error` (a string with omitempty) can be left out: omitempty has no
\* effect on latency_percentiles, whose type is a struct
JSONTestResult(r) ==
    ("test_name" :> r.TestName) @@
    ("description" :> r.Description) @@
    ("status" :> r.Status) @@
    ("duration" :> DurationString(RoundSecond(r.Duration))) @@
    ("iops" :> r.TotalIOPS) @@
    ("bandwidth_mbps" :> r.TotalBWMBps) @@
    ("latency_us" :> r.AvgLatencyUs) @@
    ("iops_stats" :>
        IF r.FioJob # <<>>
        THEN [read |-> r.ReadIOPS, write |-> r.WriteIOPS, total |-> r.TotalIOPS]
        ELSE [read |-> 0, write |-> 0, total |-> 0]) @@
    ("bandwidth_stats" :>
        IF r.FioJob # <<>>
        THEN [read |-> r.ReadBWMBps, write |-> r.WriteBWMBps,
              total |-> r.TotalBWMBps]
        ELSE [read |-> 0, write |-> 0, total |-> 0]) @@
    ("latency_stats" :>
        IF r.FioJob # <<>>
        THEN [read |-> r.FioJob[1].Read.LatNs.Mean \div 1000,
              write |-> r.FioJob[1].Write.LatNs.Mean \div 1000]
        ELSE [read |-> 0, write |-> 0]) @@
    ("latency_percentiles" :>
        IF r.FioJob # <<>> /\ DOMAIN r.FioJob[1].Read.Clat.Percentile # {}
        THEN JSONPercentiles(r.FioJob[1].Read.Clat.Percentile)
        ELSE ZeroJSONPercentiles) @@
    (IF r.Error # NoError THEN ("error" :> r.Error) ELSE <<>>)

\* a loop that builds the entries from the last result to the first
JSONTestResultsReversed(rs) ==
    [k \in 1..Len(rs) |-> JSONTestResult(rs[Len(rs) + 1 - k])]

\* lines 712-857: for _, r := range results, one entry appended per result
JSONTestResults(rs) == [k \in 1..Len(rs) |-> JSONTestResult(rs[k])]

\* lines 648-857: the document built from results
JSONResults(rs) ==
    LET stats == SaveStatsLoop(rs, 1, ZeroStats)
        hl == SaveHighlightLoop(rs, 1, SaveInitialHighlights)
    IN [summary |->
            [total_tests |-> Len(rs),
             passed |-> stats.passed,
             failed |-> stats.failed,
             total_duration |-> DurationString(stats.totalDuration)],
        test_results |-> JSONTestResults(rs),
        performance_highlights |->
            [highest_iops |->
                 JSONHighlight(hl.maxIOPS.TestName, hl.maxIOPS.TotalIOPS,
                               "iops"),
             highest_bandwidth |->
                 JSONHighlight(hl.maxBW.TestName, hl.maxBW.TotalBWMBps,
                               "MB/s"),
             lowest_latency |->
                 JSONHighlight(hl.minLatency.TestName,
                               hl.minLatency.AvgLatencyUs, "us")]]

---------------------------------------------------------------------------
(* displaySummary *)

\* lines 886-893: the body of the statistics loop
DisplayStatsStep(acc, r) ==
    [passed |-> IF r.Status = "PASSED" THEN acc.passed + 1 ELSE acc.passed,
     failed |-> IF r.Status = "PASSED" THEN acc.failed ELSE acc.failed + 1,
     totalDuration |-> acc.totalDuration + r.Duration]

RECURSIVE DisplayStatsLoop(_, _, _)
\* lines 886-893: for _, r := range results, from position k on
DisplayStatsLoop(rs, k, acc) ==
    IF k > Len(rs) THEN acc
    ELSE DisplayStatsLoop(rs, k + 1, DisplayStatsStep(acc, rs[k]))

\* lines 945-968: the row of one result in the comparison table
DetailsRow(r) ==
    [name |-> r.TestName,
     status |-> IF r.Status = "PASSED" THEN "ok" ELSE "failed",
     iops |-> IF r.Status = "PASSED" THEN FormatF0(r.TotalIOPS) ELSE "-",
     bw |-> IF r.Status = "PASSED" THEN FormatF2(r.TotalBWMBps) ELSE "-",
     lat |-> IF r.Status = "PASSED" THEN FormatF2(r.AvgLatencyUs) ELSE "-",
     duration |-> DurationString(RoundSecond(r.Duration))]

\* lines 977-980: the three winners before the scan
DisplayInitialHighlights ==
    [maxIOPS |-> ZeroResult,
     maxBW |-> ZeroResult,
     minLatency |-> [ZeroResult EXCEPT !.AvgLatencyUs = LatencySentinel]]

\* a highlights loop that compares with >= and <=: the last of equals wins
DisplayHighlightStepLastWins(acc, r) ==
    IF r.Status = "PASSED"
    THEN [maxIOPS |-> IF r.TotalIOPS >= acc.maxIOPS.TotalIOPS
                      THEN r ELSE acc.maxIOPS,
          maxBW |-> IF r.TotalBWMBps >= acc.maxBW.TotalBWMBps
                    THEN r ELSE acc.maxBW,
          minLatency |-> IF /\ r.AvgLatencyUs <= acc.minLatency.AvgLatencyUs
                            /\ r.AvgLatencyUs > 0
                         THEN r ELSE acc.minLatency]
    ELSE acc

\* lines 983-993: the body of the highlights loop
DisplayHighlightStep(acc, r) ==
    IF r.Status = "PASSED"
    THEN [maxIOPS |-> IF r.TotalIOPS > acc.maxIOPS.TotalIOPS
                      THEN r ELSE acc.maxIOPS,
          maxBW |-> IF r.TotalBWMBps > acc.maxBW.TotalBWMBps
                    THEN r ELSE acc.maxBW,
          minLatency |-> IF /\ r.AvgLatencyUs < acc.minLatency.AvgLatencyUs
                            /\ r.AvgLatencyUs > 0
                         THEN r ELSE acc.minLatency]
    ELSE acc

RECURSIVE DisplayHighlightLoop(_, _, _)
\* lines 982-994: for _, r := range results, from position k on
DisplayHighlightLoop(rs, k, acc) ==
    IF k > Len(rs) THEN acc
    ELSE DisplayHighlightLoop(rs, k + 1, DisplayHighlightStep(acc, rs[k]))

\* a highlights table whose latency row is also shown at the sentinel
HighlightRowsAtSentinel(hl) ==
    (IF hl.maxIOPS.TotalIOPS > 0
     THEN "Highest IOPS" :>
              [test |-> TruncateName(hl.maxIOPS.TestName),
               value |-> FormatF0(hl.maxIOPS.TotalIOPS)]
     ELSE <<>>) @@
    (IF hl.maxBW.TotalBWMBps > 0
     THEN "Highest Bandwidth" :>
              [test |-> TruncateName(hl.maxBW.TestName),
               value |-> FormatF2(hl.maxBW.TotalBWMBps) \o " MB/s"]
     ELSE <<>>) @@
    (IF hl.minLatency.AvgLatencyUs <= LatencySentinel
     THEN "Lowest Latency" :>
              [test |-> TruncateName(hl.minLatency.TestName),
               value |-> FormatF2(hl.minLatency.AvgLatencyUs) \o " us"]
     ELSE <<>>)

\* lines 1006-1040: the rows of the highlights table, category :> row
HighlightRows(hl) ==
    (IF hl.maxIOPS.TotalIOPS > 0
     THEN "Highest IOPS" :>
              [test |-> TruncateName(hl.maxIOPS.TestName),
               value |-> FormatF0(hl.maxIOPS.TotalIOPS)]
     ELSE <<>>) @@
    (IF hl.maxBW.TotalBWMBps > 0
     THEN "Highest Bandwidth" :>
              [test |-> TruncateName(hl.maxBW.TestName),
               value |-> FormatF2(hl.maxBW.TotalBWMBps) \o " MB/s"]
     ELSE <<>>) @@
    (IF hl.minLatency.AvgLatencyUs < LatencySentinel
     THEN "Lowest Latency" :>
              [test |-> TruncateName(hl.minLatency.TestName),
               value |-> FormatF2(hl.minLatency.AvgLatencyUs) \o " us"]
     ELSE <<>>)

\* lines 874-1048: everything displaySummary prints
SummaryView(rs) ==
    LET stats == DisplayStatsLoop(rs, 1, ZeroStats)
    IN [stats |->
            [total_tests |-> ToString(Len(rs)),
             passed |-> ToString(stats.passed),
             failed |-> ToString(stats.failed),
             total_duration |-> DurationString(stats.totalDuration)],
        details |-> [k \in 1..Len(rs) |-> DetailsRow(rs[k])],
        highlights |->
            HighlightRows(DisplayHighlightLoop(rs, 1, DisplayInitialHighlights))]

---------------------------------------------------------------------------
(* main, continued *)

\* main, lines 176-177: "test_results-" + time.Now().Format(
\* "2006-01-02-150405") + ".json"; the name is fixed by the second of the clock
Filename(t) == Unix(t)

\* os.WriteFile, line 867: the file is created, or truncated and rewritten
WriteFile(files, name, writer) ==
    {f \in files : f[1] # name} \cup {<<name, writer>>}

\* a main that ends with status 1 when a test of the run has failed
ExitStatusFailedTest(written, rs) ==
    IF \E k \in 1..Len(rs) : rs[k].Status = "FAILED" THEN 1 ELSE 0

\* a main that ends with status 1 when the report could not be written
ExitStatusSaveError(written, rs) == IF written THEN 0 ELSE 1

\* main, lines 178-184: after saveResultsToJSON, whether it failed or not,
\* main returns and the process ends with status 0
ExitStatus(written, rs) == 0

\* main, line 173
DisplaySummary ==
    /\ pc = "summary"
    /\ summaryView' = <<SummaryView(results)>>
    /\ pc' = "save"
    /\ UNCHANGED <<tests, idx, now, result, tmpFile, fioDoc, tmpFiles,
                   results, shown, persisted, warning, exitCode, fioErr, run,
                   reports>>

\* main, lines 175-184: the report is written under a timestamped name,
\* or os.WriteFile fails and main prints a warning; then main returns
SaveResultsToJSON ==
    /\ pc = "save"
    /\ \E written \in BOOLEAN :
          /\ IF written
             THEN /\ persisted' = <<[filename |-> Filename(now),
                                     doc |-> JSONResults(results)]>>
                  /\ reports' = WriteFile(reports, Filename(now), run)
                  /\ warning' = warning
             ELSE /\ persisted' = persisted
                  /\ reports' = reports
                  /\ warning' = TRUE
          /\ exitCode' = ExitStatus(written, results)
    /\ pc' = "done"
    /\ UNCHANGED <<tests, idx, now, result, tmpFile, fioDoc, tmpFiles,
                   results, shown, summaryView, fioErr, run>>

Next ==
    \/ CheckFioInstalled
    \/ LoadTestCases
    \/ StartTest
    \/ RunFio
    \/ ParseFioOutput
    \/ FinishTest
    \/ LoopExit
    \/ DisplaySummary
    \/ SaveResultsToJSON

Spec == Init /\ [][Next]_vars

---------------------------------------------------------------------------
(* The aggregation functions on every result sequence *)

\* TestResult.TotalIOPS, TotalBWMBps and AvgLatencyUs of a PASSED input
AggIOPSValues == {0, 1, 2}
AggBWValues == {0, 1}
AggLatencyValues == {0, 1, 2, LatencySentinel}

\* a result named after test i
AggResult(i, status, iops, bw, lat, d) ==
    [ZeroResult EXCEPT !.TestName = TestNames[i],
                       !.Description = TestNames[i],
                       !.Status = status,
                       !.TotalIOPS = iops,
                       !.TotalBWMBps = bw,
                       !.AvgLatencyUs = lat,
                       !.Duration = d,
                       !.Error = IF status = "FAILED"
                                 THEN "fio command failed" ELSE NoError]

\* the results a caller can put at position i of the sequence: any PASSED
\* result, a PASSED result whose latency is above the sentinel, a FAILED
\* result as runTest builds it, and a FAILED result whose metrics would win
\* every highlight
AggResultsAt(i) ==
    {AggResult(i, "PASSED", n, b, l, d) :
        n \in AggIOPSValues, b \in AggBWValues, l \in AggLatencyValues,
        d \in Durations}
    \cup {AggResult(i, "PASSED", 1, 1, LatencySentinel + 1, d) :
              d \in Durations}
    \cup {AggResult(i, "FAILED", 0, 0, 0, d) : d \in Durations}
    \cup {AggResult(i, "FAILED", 2, 1, 1, d) : d \in Durations}

RECURSIVE ResultSeqs(_)
\* the result sequences of length n
ResultSeqs(n) ==
    IF n = 0 THEN {<<>>}
    ELSE {Append(s, r) : s \in ResultSeqs(n - 1), r \in AggResultsAt(n)}

\* main at line 172, with any result sequence
InitAgg ==
    /\ pc = "summary"
    /\ \E n \in 0..MaxResults :
          /\ results \in ResultSeqs(n)
          /\ tests = SubSeq(TestDefs, 1, n)
          /\ idx = n + 1
    /\ now = 0
    /\ result = ZeroResult
    /\ tmpFile = NoPath
    /\ fioDoc = ReadMissing
    /\ tmpFiles = {}
    /\ shown = <<>>
    /\ summaryView = <<>>
    /\ persisted = <<>>
    /\ warning = FALSE
    /\ exitCode = -1
    /\ fioErr = FALSE
    /\ run = 1
    /\ reports = {}

NextAgg ==
    \/ DisplaySummary
    \/ SaveResultsToJSON

SpecAgg == InitAgg /\ [][NextAgg]_vars

---------------------------------------------------------------------------
(* One test over the documents fio can leave: percentile maps and a second
   job *)

\* the labels of the clat_ns.percentile maps: the first, a middle and the
\* last canonical label
DocPercentileLabels == {"1.000000", "50.000000", "99.990000"}

\* job.read.clat_ns.percentile[p], in nanoseconds
DocPercentileValues == {0, 3000}

DocJobs ==
    [Read : FioIOs(ReadLatNsValues,
                   PercentileMaps(DocPercentileLabels, DocPercentileValues)),
     Write : FioIOs(WriteLatNsValues, {NoPercentiles})]

\* the job that follows the first one in a document of two jobs
SecondJob ==
    [Read |-> [IOPS |-> 1, BWBytes |-> BytesPerIO, LatNs |-> [Mean |-> 2000],
               Clat |-> [Percentile |-> ("50.000000" :> 3000)]],
     Write |-> [IOPS |-> 1, BWBytes |-> BytesPerIO, LatNs |-> [Mean |-> 4000],
                Clat |-> [Percentile |-> NoPercentiles]]]

DocFioOutputs ==
    {[Jobs |-> <<>>]} \cup {[Jobs |-> <<j>>] : j \in DocJobs}
    \cup {[Jobs |-> <<j, SecondJob>>] : j \in DocJobs}

DocReadOutcomes == {ReadMissing, ReadMalformed} \cup
                   {[kind |-> "json", out |-> o] : o \in DocFioOutputs}

NextDoc ==
    \/ CheckFioInstalled
    \/ LoadTestCasesUpTo(1)
    \/ StartTest
    \/ RunFioFrom(Durations, DocReadOutcomes)
    \/ ParseFioOutput
    \/ FinishTest
    \/ LoopExit
    \/ DisplaySummary
    \/ SaveResultsToJSON

SpecDoc == Init /\ [][NextDoc]_vars

---------------------------------------------------------------------------
(* Several runs of the program, one after the other, in one directory *)

\* the runs of the program
MaxRuns == 2

\* time.Since(start) of one fio execution: under half a second, or longer
RunsDurations == {0, 3}

\* the clock between the end of a run and the start of the next one
RunsGaps == {0, Second}

RunsReadOutcomes ==
    {ReadMissing,
     [kind |-> "json",
      out |-> [Jobs |-> <<[Read |-> [IOPS |-> 1, BWBytes |-> BytesPerIO,
                                      LatNs |-> [Mean |-> 2000],
                                      Clat |-> [Percentile |-> NoPercentiles]],
                           Write |-> [IOPS |-> 0, BWBytes |-> 0,
                                      LatNs |-> [Mean |-> 0],
                                      Clat |-> [Percentile |-> NoPercentiles]]
                          ]>>]]}

\* main, line 137: the program is started again after it has ended; only
\* the clock and the files on disk are carried over
Restart ==
    /\ pc \in {"done", "exited"}
    /\ run < MaxRuns
    /\ run' = run + 1
    /\ \E gap \in RunsGaps : now' = now + gap
    /\ pc' = "check"
    /\ tests' = <<>>
    /\ idx' = 1
    /\ results' = <<>>
    /\ shown' = <<>>
    /\ summaryView' = <<>>
    /\ persisted' = <<>>
    /\ warning' = FALSE
    /\ exitCode' = -1
    /\ UNCHANGED <<result, tmpFile, fioErr, fioDoc, tmpFiles, reports>>

NextRuns ==
    \/ CheckFioInstalled
    \/ LoadTestCasesUpTo(1)
    \/ StartTest
    \/ RunFioFrom(RunsDurations, RunsReadOutcomes)
    \/ ParseFioOutput
    \/ FinishTest
    \/ LoopExit
    \/ DisplaySummary
    \/ SaveResultsToJSON
    \/ Restart

SpecRuns == Init /\ [][NextRuns]_vars

---------------------------------------------------------------------------
(* Claims about the run loop and runTest, checked under Spec *)

\* the tests whose runTest call has returned and whose result was appended
TestsDone == idx - 1

\* C1 (failure isolation): whatever the outcome of each test, the loop has
\* appended exactly one result per finished test, in definition order; a
\* test that is left is always started, a started test always returns, and
\* the summary and persistence steps are reached with one result per test.
C1_FailureIsolation ==
    /\ Len(results) = TestsDone
    /\ TestsDone <= Len(tests)
    /\ \A k \in 1..Len(results) : results[k].TestName = tests[k].Name
    /\ (pc = "loop" /\ idx <= Len(tests)) => ENABLED StartTest
    /\ pc = "fio" => ENABLED RunFio
    /\ pc = "parse" => ENABLED ParseFioOutput
    /\ pc = "return" => ENABLED FinishTest
    /\ (pc = "loop" /\ idx > Len(tests)) => ENABLED LoopExit
    /\ pc = "summary" => ENABLED DisplaySummary
    /\ pc = "save" => ENABLED SaveResultsToJSON
    /\ pc \in {"summary", "save", "done"} => Len(results) = Len(tests)
    /\ pc = "done" => Len(summaryView) = 1 /\ (Len(persisted) = 1 \/ warning)

\* C1 witness: the run ended after a test that failed was followed by a
\* test that ran and passed
C1_Witness ==
    /\ pc = "done"
    /\ Len(results) = 2
    /\ results[1].Status = "FAILED"
    /\ results[2].Status = "PASSED"

\* C2 (temporary file released): when runTest returns, its temporary
\* raw-measurement file no longer exists, and no temporary file is left
\* after the run.
C2_TempFileReleased ==
    /\ pc = "return" => tmpFile \notin tmpFiles
    /\ pc = "done" => tmpFiles = {}

\* the numeric metric fields of a TestResult
MetricFields ==
    {"ReadIOPS", "WriteIOPS", "TotalIOPS", "ReadBWMBps", "WriteBWMBps",
     "TotalBWMBps", "ReadLatencyUs", "WriteLatencyUs", "AvgLatencyUs"}

\* C3 (failed results): a result runTest returns with status FAILED has
\* every numeric metric field zero and a non-empty error description.
C3_FailedResultShape ==
    pc = "return" /\ result.Status = "FAILED" =>
        /\ \A f \in MetricFields : result[f] = 0
        /\ result.Error # NoError
        /\ result.Error # ""

---------------------------------------------------------------------------
(* Claims about aggregation, checked under SpecAgg (C8 under Spec) *)

\* the positions of the PASSED results of rs
PassedAt(rs) == {k \in 1..Len(rs) : rs[k].Status = "PASSED"}

\* the positions of the PASSED results of rs whose field f is above zero
PassedPositiveAt(rs, f) == {k \in PassedAt(rs) : rs[k][f] > 0}

RECURSIVE SumDurations(_)
\* the sum of the durations of all the results of rs
SumDurations(rs) ==
    IF rs = <<>> THEN 0 ELSE rs[1].Duration + SumDurations(Tail(rs))

\* the first position among S where field f of rs is largest
EarliestMaxAt(rs, S, f) ==
    CHOOSE k \in S : /\ \A j \in S : rs[j][f] <= rs[k][f]
                     /\ \A j \in S : j < k => rs[j][f] < rs[k][f]

\* the first position among S where field f of rs is smallest
EarliestMinAt(rs, S, f) ==
    CHOOSE k \in S : /\ \A j \in S : rs[j][f] >= rs[k][f]
                     /\ \A j \in S : j < k => rs[j][f] > rs[k][f]

\* the document saveResultsToJSON wrote, and what displaySummary printed
Saved == Len(persisted) = 1
Doc == persisted[1].doc
Summarised == Len(summaryView) = 1
View == summaryView[1]

\* the highlights of the persisted document, with the result field each
\* one is about and the row of the interactive table that shows it
HighlightKinds ==
    {[key |-> "highest_iops", field |-> "TotalIOPS", row |-> "Highest IOPS"],
     [key |-> "highest_bandwidth", field |-> "TotalBWMBps",
      row |-> "Highest Bandwidth"],
     [key |-> "lowest_latency", field |-> "AvgLatencyUs",
      row |-> "Lowest Latency"]}

\* the value cell of a row of the interactive highlights table
HighlightCell(row, value) ==
    IF row = "Highest IOPS" THEN FormatF0(value)
    ELSE IF row = "Highest Bandwidth" THEN FormatF2(value) \o " MB/s"
    ELSE FormatF2(value) \o " us"

\* C4 (summary statistics): both views report passed = the number of PASSED
\* results, failed = the number of the others, total = passed + failed = the
\* length of the sequence, and total_duration = the sum of the durations of
\* all results, the failed ones included.
C4_SummaryStatistics ==
    LET passed == Cardinality(PassedAt(results))
        failed == Len(results) - passed
        total == SumDurations(results)
    IN /\ Saved =>
            /\ Doc.summary.passed = passed
            /\ Doc.summary.failed = failed
            /\ Doc.summary.total_tests = passed + failed
            /\ Doc.summary.total_tests = Len(results)
            /\ Doc.summary.total_duration = DurationString(total)
       /\ Summarised =>
            /\ View.stats.passed = ToString(passed)
            /\ View.stats.failed = ToString(failed)
            /\ View.stats.total_tests = ToString(passed + failed)
            /\ View.stats.total_tests = ToString(Len(results))
            /\ View.stats.total_duration = DurationString(total)

\* C4 witness: a report was written for a run of two tests, of which one
\* failed and one passed, each after some time
C4_Witness ==
    /\ Saved
    /\ Summarised
    /\ Len(results) = 2
    /\ results[1].Status = "PASSED" /\ results[1].Duration > 0
    /\ results[2].Status = "FAILED" /\ results[2].Duration > 0

\* C5 (highlights are PASSED results): in both views each highlight names
\* no test, or names a PASSED result of the sequence and carries its value;
\* a FAILED result never wins, whatever its metric values.
C5_HighlightsArePassed ==
    \A h \in HighlightKinds :
        /\ Saved =>
             LET hl == Doc.performance_highlights[h.key]
             IN \/ hl.test_name = ""
                \/ \E k \in PassedAt(results) :
                      /\ results[k].TestName = hl.test_name
                      /\ results[k][h.field] = hl.value
        /\ (Summarised /\ h.row \in DOMAIN View.highlights) =>
             \E k \in PassedAt(results) :
                /\ TruncateName(results[k].TestName) =
                       View.highlights[h.row].test
                /\ HighlightCell(h.row, results[k][h.field]) =
                       View.highlights[h.row].value

\* C5 witness: a report was written for a sequence in which a FAILED result
\* has better IOPS, bandwidth and latency than the PASSED result
C5_Witness ==
    /\ Saved
    /\ Summarised
    /\ \E k \in 1..Len(results), j \in PassedAt(results) :
          /\ results[k].Status = "FAILED"
          /\ results[k].TotalIOPS > results[j].TotalIOPS
          /\ results[k].TotalBWMBps > results[j].TotalBWMBps
          /\ results[k].AvgLatencyUs < results[j].AvgLatencyUs
          /\ results[j].TotalIOPS > 0
          /\ Doc.performance_highlights.highest_iops.test_name =
                 results[j].TestName

\* the highlight h of both views names position k of the sequence
HighlightNames(h, k) ==
    /\ Saved =>
         /\ Doc.performance_highlights[h.key].test_name = results[k].TestName
         /\ Doc.performance_highlights[h.key].value = results[k][h.field]
    /\ Summarised =>
         /\ h.row \in DOMAIN View.highlights
         /\ View.highlights[h.row].test = TruncateName(results[k].TestName)
         /\ View.highlights[h.row].value =
                HighlightCell(h.row, results[k][h.field])

\* C6 as stated (earliest maximum): whenever the sequence has a PASSED
\* result, the highest-IOPS and the highest-bandwidth highlight each name
\* the earliest PASSED result whose value is the maximum over the PASSED
\* results.
C6_EarliestMaximum ==
    \A h \in {x \in HighlightKinds : x.key # "lowest_latency"} :
        PassedAt(results) # {} =>
            HighlightNames(h, EarliestMaxAt(results, PassedAt(results),
                                            h.field))

\* C6 as amended (earliest positive maximum): whenever the sequence has a
\* PASSED result whose combined IOPS (bandwidth) is above zero, the
\* highest-IOPS (highest-bandwidth) highlight names the earliest PASSED
\* result whose value is the maximum over the PASSED results; of equal
\* results the first wins.
C6_EarliestPositiveMaximum ==
    \A h \in {x \in HighlightKinds : x.key # "lowest_latency"} :
        PassedPositiveAt(results, h.field) # {} =>
            HighlightNames(h, EarliestMaxAt(results, PassedAt(results),
                                            h.field))

\* C6 witness: a report was written for two PASSED results with the same
\* IOPS above zero, and it names the first of them
C6_Witness ==
    /\ Saved
    /\ Len(results) = 2
    /\ PassedAt(results) = {1, 2}
    /\ results[1].TotalIOPS = results[2].TotalIOPS
    /\ results[1].TotalIOPS > 0
    /\ Doc.performance_highlights.highest_iops.test_name = results[1].TestName

\* C7 (lowest latency): the lowest-latency highlight never names a result
\* whose combined latency is zero, and whenever a PASSED result has a
\* combined latency above zero it names the earliest PASSED result whose
\* latency is the minimum of the PASSED results with latency above zero.
C7_LowestLatency ==
    LET h == CHOOSE x \in HighlightKinds : x.key = "lowest_latency"
        positive == PassedPositiveAt(results, "AvgLatencyUs")
    IN /\ Saved =>
            \A k \in 1..Len(results) :
                Doc.performance_highlights.lowest_latency.test_name =
                    results[k].TestName => results[k].AvgLatencyUs > 0
       /\ positive # {} =>
            HighlightNames(h, EarliestMinAt(results, positive, "AvgLatencyUs"))

\* C8 (no PASSED result): for a sequence without a PASSED result the
\* persisted summary reports passed = 0 and each of the three highlights
\* has an empty test name and the value zero.
C8_NoPassedResult ==
    (Saved /\ PassedAt(results) = {}) =>
        /\ Doc.summary.passed = 0
        /\ \A h \in HighlightKinds :
              /\ Doc.performance_highlights[h.key].test_name = ""
              /\ Doc.performance_highlights[h.key].value = 0

\* C9 (the views agree): once both views exist they report the same
\* total/passed/failed counts and total duration, and for each highlight
\* either the interactive row shows the test and the value of the persisted
\* highlight (the name cut to the column width, the value as printed), or
\* there is no row and the persisted highlight names no test.
C9_ViewsAgree ==
    (Saved /\ Summarised) =>
        /\ View.stats.total_tests = ToString(Doc.summary.total_tests)
        /\ View.stats.passed = ToString(Doc.summary.passed)
        /\ View.stats.failed = ToString(Doc.summary.failed)
        /\ View.stats.total_duration = Doc.summary.total_duration
        /\ \A h \in HighlightKinds :
              LET hl == Doc.performance_highlights[h.key]
              IN IF h.row \in DOMAIN View.highlights
                 THEN /\ View.highlights[h.row].test =
                             TruncateName(hl.test_name)
                      /\ View.highlights[h.row].value =
                             HighlightCell(h.row, hl.value)
                 ELSE hl.test_name = ""

\* C9 witness: both views exist for two PASSED results with equal IOPS,
\* bandwidth and latency above zero, and all three rows are shown
C9_Witness ==
    /\ Saved
    /\ Summarised
    /\ PassedAt(results) = {1, 2}
    /\ results[1].TotalIOPS = results[2].TotalIOPS
    /\ results[1].TotalBWMBps = results[2].TotalBWMBps
    /\ results[1].AvgLatencyUs = results[2].AvgLatencyUs
    /\ DOMAIN View.highlights =
           {"Highest IOPS", "Highest Bandwidth", "Lowest Latency"}

\* the PASSED results the latency scan can select: latency above zero and
\* below the sentinel
PassedSelectableLatencyAt(rs) ==
    {k \in PassedAt(rs) :
        rs[k].AvgLatencyUs > 0 /\ rs[k].AvgLatencyUs < LatencySentinel}

\* C21 (highlight rows): in the interactive summary each highlight row is
\* shown exactly when the scan replaced its initial winner by a result: the
\* highest-IOPS and highest-bandwidth rows exactly when some PASSED result
\* has a value above zero, the lowest-latency row exactly when some PASSED
\* result has a latency above zero and below the sentinel 999999999; a row
\* that is shown is about such a result, and neither view names a PASSED
\* result whose latency is at or above the sentinel as the lowest latency.
C21_HighlightRows ==
    LET hl == DisplayHighlightLoop(results, 1, DisplayInitialHighlights)
        selected(winner) == \E k \in 1..Len(results) : winner = results[k]
        selectable == PassedSelectableLatencyAt(results)
    IN /\ Summarised =>
            /\ "Highest IOPS" \in DOMAIN View.highlights
                   <=> selected(hl.maxIOPS)
            /\ "Highest Bandwidth" \in DOMAIN View.highlights
                   <=> selected(hl.maxBW)
            /\ "Lowest Latency" \in DOMAIN View.highlights
                   <=> selected(hl.minLatency)
            /\ "Highest IOPS" \in DOMAIN View.highlights
                   <=> PassedPositiveAt(results, "TotalIOPS") # {}
            /\ "Highest Bandwidth" \in DOMAIN View.highlights
                   <=> PassedPositiveAt(results, "TotalBWMBps") # {}
            /\ "Lowest Latency" \in DOMAIN View.highlights
                   <=> selectable # {}
            /\ "Lowest Latency" \in DOMAIN View.highlights =>
                   \E k \in selectable :
                       /\ View.highlights["Lowest Latency"].test =
                              TruncateName(results[k].TestName)
                       /\ View.highlights["Lowest Latency"].value =
                              HighlightCell("Lowest Latency",
                                            results[k].AvgLatencyUs)
       /\ Saved =>
            \A k \in PassedAt(results) :
                results[k].AvgLatencyUs >= LatencySentinel =>
                    Doc.performance_highlights.lowest_latency.test_name #
                        results[k].TestName

\* C21 witness: the summary of a single PASSED result whose latency is
\* above the sentinel shows the IOPS and bandwidth rows and no latency row
C21_Witness ==
    /\ Summarised
    /\ Len(results) = 1
    /\ PassedAt(results) = {1}
    /\ results[1].AvgLatencyUs > LatencySentinel
    /\ DOMAIN View.highlights = {"Highest IOPS", "Highest Bandwidth"}

---------------------------------------------------------------------------
(* Claims about the rendering of failed results, checked under Spec *)

\* the keys of a persisted per-test entry that hold numeric metrics
JSONMetricKeys ==
    {"iops", "bandwidth_mbps", "latency_us", "iops_stats", "bandwidth_stats",
     "latency_stats"}

\* C10 (failed results are rendered without metrics): for every FAILED
\* result the per-test block, the comparison-table row and the persisted
\* entry are marked as failed, the block and the entry carry the error
\* description of the result, and none of them has a numeric metric field.
C10_FailedRendering ==
    \A k \in 1..Len(results) :
        results[k].Status = "FAILED" =>
            /\ k <= Len(shown) =>
                 /\ shown[k]["Status"] = "FAILED"
                 /\ DOMAIN shown[k] \subseteq {"Status", "Error"}
                 /\ results[k].Error # NoError =>
                        /\ "Error" \in DOMAIN shown[k]
                        /\ shown[k]["Error"] = results[k].Error
            /\ Summarised =>
                 /\ View.details[k].status = "failed"
                 /\ View.details[k].iops = "-"
                 /\ View.details[k].bw = "-"
                 /\ View.details[k].lat = "-"
            /\ Saved =>
                 /\ Doc.test_results[k]["status"] = "FAILED"
                 /\ results[k].Error # NoError =>
                        /\ "error" \in DOMAIN Doc.test_results[k]
                        /\ Doc.test_results[k]["error"] = results[k].Error
                 /\ DOMAIN Doc.test_results[k] \cap JSONMetricKeys = {}

---------------------------------------------------------------------------
(* Claims about the normalised latency and the status, checked under Spec *)

\* the results that carry the job record they were normalised from
WithJob == {k \in 1..Len(results) : results[k].FioJob # <<>>}

\* read.lat_ns.mean and write.lat_ns.mean of the job of result k, in
\* microseconds
RawReadLatency(k) == results[k].FioJob[1].Read.LatNs.Mean \div 1000
RawWriteLatency(k) == results[k].FioJob[1].Write.LatNs.Mean \div 1000

\* C12 (both latencies are averaged): for every result whose raw read and
\* write total-latency means are both non-zero, the combined latency is
\* their mean, whatever the read and write IOPS are.
C12_BothLatenciesAveraged ==
    \A k \in WithJob :
        RawReadLatency(k) # 0 /\ RawWriteLatency(k) # 0 =>
            results[k].AvgLatencyUs =
                (RawReadLatency(k) + RawWriteLatency(k)) \div 2

\* C13 (a single latency is kept): for every result with only one raw
\* latency non-zero the combined latency is that latency, and a result of
\* a read-only measurement (write IOPS, bandwidth and latency all zero) has
\* WriteIOPS = 0 and the read latency as its combined latency.
C13_SingleLatencyKept ==
    \A k \in WithJob :
        LET write == results[k].FioJob[1].Write
        IN /\ RawReadLatency(k) # 0 /\ RawWriteLatency(k) = 0 =>
                results[k].AvgLatencyUs = RawReadLatency(k)
           /\ RawReadLatency(k) = 0 /\ RawWriteLatency(k) # 0 =>
                results[k].AvgLatencyUs = RawWriteLatency(k)
           /\ write.IOPS = 0 /\ write.BWBytes = 0 /\ write.LatNs.Mean = 0 =>
                /\ results[k].WriteIOPS = 0
                /\ results[k].AvgLatencyUs = RawReadLatency(k)

\* C14 (a parsed document passes): whenever runTest returns after fio
\* succeeded and its document was read and parsed, the result is PASSED,
\* also for a document without jobs.
C14_ParsedIsPassed ==
    pc = "return" /\ ~fioErr /\ fioDoc.kind = "json" =>
        result.Status = "PASSED"

---------------------------------------------------------------------------
(* Claims about main's control flow, checked under Spec *)

\* the process has ended with a non-zero status in this step
ExitsNonZero == exitCode' > 0 /\ exitCode <= 0

\* C15 (non-zero exit only without fio): the process ends with a non-zero
\* status only in the step of the pre-flight check; loading the test
\* definitions, running the tests and writing the report never do that.
C15_NonZeroOnlyWithoutFio ==
    [][ExitsNonZero => pc = "check"]_vars

\* C15, amended: the process ends with a non-zero status only in the
\* pre-flight check or while loading the test definitions, before any test
\* has run; once the loop has been entered the process ends with status 0,
\* whatever tests failed and whether or not the report was written.
C15_NonZeroOnlyBeforeTests ==
    [][/\ ExitsNonZero =>
            pc \in {"check", "load"} /\ results = <<>> /\ pc' = "exited"
       /\ pc' = "done" => exitCode' = 0]_vars

\* a run with a failed test and a report that could not be written has
\* ended with status 0
C15_Witness ==
    /\ pc = "done"
    /\ exitCode = 0
    /\ warning
    /\ \E k \in 1..Len(results) : results[k].Status = "FAILED"

\* C16 (a persistence failure is a warning only): the write of the report
\* is attempted only after the summary of the results has been rendered,
\* and the step that attempts it, whether the write succeeds or fails with
\* a warning, leaves the results, the per-test blocks and the summary as
\* they are and ends the process with status 0.
C16_PersistenceFailureIsWarning ==
    [][pc = "save" =>
          /\ Summarised /\ View = SummaryView(results)
          /\ results' = results
          /\ shown' = shown
          /\ summaryView' = summaryView
          /\ persisted' = persisted => warning'
          /\ pc' = "done"
          /\ exitCode' = 0]_vars

\* a run of at least one test whose report could not be written has ended
C16_Witness ==
    /\ pc = "done"
    /\ warning
    /\ ~Saved
    /\ Summarised
    /\ Len(results) > 0
    /\ Len(View.details) = Len(results)

\* C17 (sequential and append-only): a test is started only from the loop,
\* when every earlier test has its result in the sequence; while it is in
\* progress it is the only one and no result has been added for it; the
\* sequence changes only when runTest has returned, by the append of its
\* result, and the earlier elements stay as they were.
C17_SequentialAppendOnly ==
    [][/\ pc' = "fio" /\ pc # "fio" =>
            pc = "loop" /\ Len(results) = idx - 1 /\ idx' = idx
       /\ pc \in {"fio", "parse", "return"} =>
            /\ Len(results) = idx - 1
            /\ result.TestName = tests[idx].Name
       /\ results' # results =>
            /\ pc = "return"
            /\ Len(results') = Len(results) + 1
            /\ results'[Len(results')] = result
            /\ idx' = idx + 1
       /\ SubSeq(results', 1, Len(results)) = results]_vars

\* two tests have run one after the other, with different outcomes
C17_Witness ==
    /\ pc = "loop"
    /\ Len(results) = 2
    /\ idx = 3
    /\ results[1].Status # results[2].Status

\* C19 (rendering only reads the results): the step that prints the block
\* of a result changes the sequence by the append of that result only; the
\* steps that render the summary and write the report leave the sequence
\* as it is, in length, order and elements; and the test_results list that
\* is written has one entry per result, in the order of the sequence.
C19_RenderingOnlyReads ==
    [][/\ shown' # shown =>
            /\ results' = Append(results, result)
            /\ shown' = Append(shown, DisplayTestResult(result))
       /\ pc \in {"summary", "save"} => results' = results
       /\ summaryView' # summaryView =>
            Len(summaryView'[1].details) = Len(results')
       /\ persisted' # persisted =>
            LET written == persisted'[1].doc.test_results
            IN /\ Len(written) = Len(results')
               /\ \A k \in 1..Len(results') :
                      written[k] = JSONTestResult(results'[k])]_vars

\* the report of two results that differ has been written
C19_Witness ==
    /\ Saved
    /\ Summarised
    /\ Len(results) = 2
    /\ Len(shown) = 2
    /\ Doc.test_results[1]["status"] # Doc.test_results[2]["status"]

---------------------------------------------------------------------------
(* Claims about several runs, checked under SpecRuns *)

\* C18 (report names differ between runs): whenever a run writes its
\* report, no report file of an earlier run has the name it writes to, so
\* no earlier report is overwritten.
C18_ReportNamesDiffer ==
    [][pc = "save" /\ persisted' # persisted =>
          \A f \in reports : f[1] # persisted'[1].filename]_vars

---------------------------------------------------------------------------
(* Claims about the documents of fio, checked under SpecDoc *)

\* the labels of the percentile table in a per-test block
ShownPercentiles(block) ==
    DOMAIN block \cap {FormatPercentile(p) : p \in CanonicalLabels}

\* the percentile keys of a persisted entry
PersistedPercentiles(entry) ==
    IF "latency_percentiles" \in DOMAIN entry
    THEN DOMAIN entry["latency_percentiles"]
    ELSE {}

\* C11 (percentiles are carried as they are): for every result with a job
\* record, the percentile table of its block and the percentile entries of
\* its persisted entry carry exactly the canonical labels of the raw map,
\* each with the raw value divided by 1000; a label that is not in the raw
\* map is in neither rendering.
C11_PercentilesAsPresent ==
    \A k \in 1..Len(results) :
        results[k].FioJob # <<>> =>
            LET raw == results[k].FioJob[1].Read.Clat.Percentile
                present == CanonicalLabels \cap DOMAIN raw
            IN /\ k <= Len(shown) =>
                    /\ ShownPercentiles(shown[k]) =
                           {FormatPercentile(p) : p \in present}
                    /\ \A p \in present :
                           shown[k][FormatPercentile(p)] =
                               FormatF2(raw[p] \div 1000)
               /\ Saved =>
                    /\ PersistedPercentiles(Doc.test_results[k]) =
                           {JSONKey(p) : p \in present}
                    /\ \A p \in present :
                           Doc.test_results[k]["latency_percentiles"]
                               [JSONKey(p)] = raw[p] \div 1000

\* C20 (status of a result): every result runTest returns is PASSED or
\* FAILED; it is PASSED exactly when the fio command succeeded, its document
\* was parsed and the document has at least one job; a PASSED result has
\* its job record and no error, and its job record and metrics are those of
\* the first job of the document.
C20_StatusOfResult ==
    /\ \A k \in 1..Len(results) : results[k].Status \in {"PASSED", "FAILED"}
    /\ pc = "return" =>
          /\ result.Status \in {"PASSED", "FAILED"}
          /\ result.Status = "PASSED" <=>
                /\ ~fioErr
                /\ fioDoc.kind = "json"
                /\ Len(fioDoc.out.Jobs) > 0
          /\ result.Status = "PASSED" =>
                LET first == fioDoc.out.Jobs[1]
                IN /\ result.FioJob = <<first>>
                   /\ result.Error = NoError
                   /\ result.ReadIOPS = first.Read.IOPS
                   /\ result.WriteIOPS = first.Write.IOPS
                   /\ result.TotalIOPS = first.Read.IOPS + first.Write.IOPS
                   /\ result.ReadBWMBps = first.Read.BWBytes \div 1048576
                   /\ result.WriteBWMBps = first.Write.BWBytes \div 1048576
                   /\ result.ReadLatencyUs = first.Read.LatNs.Mean \div 1000
                   /\ result.WriteLatencyUs = first.Write.LatNs.Mean \div 1000

\* runTest has returned a PASSED result for a document of two different
\* jobs
C20_Witness ==
    /\ pc = "return"
    /\ result.Status = "PASSED"
    /\ Len(fioDoc.out.Jobs) = 2
    /\ fioDoc.out.Jobs[1] # fioDoc.out.Jobs[2]
    /\ result.TotalIOPS # fioDoc.out.Jobs[2].Read.IOPS + fioDoc.out.Jobs[2].Write.IOPS

=============================================================================
